---- MODULE Spec2Model ----
(***************************************************************************)
(* Task-dependency scheduling engine of the project-management backend     *)
(* (TaskService in backend/src/services/project.service.ts): the           *)
(* dependency graph with its cycle check, the working-day arithmetic and   *)
(* the propagation of date changes to dependent tasks.                     *)
(*                                                                         *)
(* Dates are day numbers (time of day truncated, as in the data model):    *)
(* day 0 is a Sunday, so d % 7 is JavaScript's Date.getDay().              *)
(***************************************************************************)
EXTENDS Integers, Sequences, FiniteSets, TLC

VARIABLES
    task,     \* the Task table: id -> row, for the tasks that exist
    edges,    \* the TaskDependency table: a set of rows
    stack,    \* call stack of autoScheduleDependentTasks (top = last)
    ops,      \* number of service calls made so far
    last,     \* the service call made last: its arguments, outcome and the store before it
    bfs,      \* a run of wouldCreateCircularDependency, one loop iteration per step
    wd,       \* an application of the date arithmetic (addWorkingDays, the proposed start)
    calls     \* service calls that run concurrently: call id -> arguments, position, own call stack

vars == <<task, edges, stack, ops, last, bfs, wd, calls>>

----------------------------------------------------------------------------
(* Bounds of the model *)

NumTasks == 3        \* task ids 1..NumTasks
MaxOps == 2          \* service calls per behaviour
MaxLag == 1          \* lagDays offered to addDependency: 0..MaxLag
MaxGraphEdges == 3   \* size of the edge sets the cycle check is run on
MaxDay == 13         \* dates offered to addWorkingDays: 0..MaxDay
MaxDays == 6         \* day counts offered to addWorkingDays: -MaxDays..MaxDays
MaxLead == 3         \* negative lagDays offered to the proposed start: -MaxLead..-1

Tasks == 1..NumTasks
NoDate == -1

FINISH_TO_START == "FINISH_TO_START"
START_TO_START == "START_TO_START"
FINISH_TO_FINISH == "FINISH_TO_FINISH"
START_TO_FINISH == "START_TO_FINISH"
DependencyType == {FINISH_TO_START, START_TO_START, FINISH_TO_FINISH, START_TO_FINISH}

Max(S) == CHOOSE x \in S : \A y \in S : y <= x

----------------------------------------------------------------------------
(* Working-day arithmetic *)

\* Date.getDay(): 0 = Sunday .. 6 = Saturday
getDay(d) == d % 7

\* the test `getDay() !== 0 && getDay() !== 6` of both loops
isWorkingDay(d) == getDay(d) # 0 /\ getDay(d) # 6

RECURSIVE calculateDurationLoop(_, _, _)
calculateDurationLoop(current, end, days) ==
    IF current <= end
    THEN calculateDurationLoop(current + 1, end,
                               IF isWorkingDay(current) THEN days + 1 ELSE days)
    ELSE days

\* a mutant of calculateDuration: the count is returned as it is
calculateDurationUnclamped(startDate, endDate) ==
    calculateDurationLoop(startDate, endDate, 0)

\* `return Math.max(1, days)`
calculateDuration(startDate, endDate) ==
    LET days == calculateDurationLoop(startDate, endDate, 0)
    IN IF days >= 1 THEN days ELSE 1

\* a mutant of addWorkingDays: every calendar day counts
addWorkingDaysCalendar(startDate, days) ==
    IF days > 0 THEN startDate + days ELSE startDate

\* while (remainingDays > 0) { result += 1 day; if working day: remainingDays-- }
\* A count of zero or less never enters the loop.
RECURSIVE addWorkingDays(_, _)
addWorkingDays(startDate, days) ==
    IF days > 0
    THEN LET result == startDate + 1
         IN addWorkingDays(result, IF isWorkingDay(result) THEN days - 1 ELSE days)
    ELSE startDate

----------------------------------------------------------------------------
(* The dependency graph *)

Edge(t, d, ty, lag) == [taskId |-> t, dependsOnId |-> d, type |-> ty, lagDays |-> lag]

\* every arrangement of the elements of S as a sequence (the store fixes no order)
SeqsOf(S) ==
    {s \in [1..Cardinality(S) -> S] : \A i, j \in 1..Cardinality(S) : i # j => s[i] # s[j]}

\* prisma.taskDependency.findMany({ where: { taskId: currentId }, select: { dependsOnId } }):
\* one id per stored row, in any order the store may return the rows
dependenciesFound(E, currentId) ==
    {[i \in 1..Len(s) |-> s[i].dependsOnId] : s \in SeqsOf({x \in E : x.taskId = currentId})}

\* the state of the loop right after `queue = [dependsOnId]`
bfsStart(taskId, dependsOnId) ==
    [taskId |-> taskId, dependsOnId |-> dependsOnId, queue |-> <<dependsOnId>>,
     visited |-> {}, queried |-> <<>>, result |-> "running"]

\* a mutant of bfsIteration: only the first dependency found is followed
bfsIterationFirstOnly(b, found) ==
    LET currentId == Head(b.queue)
        rest == Tail(b.queue)
    IN IF currentId \in b.visited
       THEN [b EXCEPT !.queue = rest]
       ELSE IF currentId = b.taskId
       THEN [b EXCEPT !.queue = rest, !.visited = @ \cup {currentId}, !.result = "true"]
       ELSE [b EXCEPT !.queue = rest \o (IF found = <<>> THEN <<>> ELSE <<found[1]>>),
                      !.visited = @ \cup {currentId},
                      !.queried = Append(@, currentId)]

\* a mutant of bfsIteration: no visited set is kept
bfsIterationNoVisited(b, found) ==
    LET currentId == Head(b.queue)
        rest == Tail(b.queue)
    IN IF currentId = b.taskId
       THEN [b EXCEPT !.queue = rest, !.result = "true"]
       ELSE [b EXCEPT !.queue = rest \o found,
                      !.queried = Append(@, currentId)]

\* One iteration of the while loop of wouldCreateCircularDependency, on a
\* non-empty queue; `found` is what the query for the head of the queue returns.
bfsIteration(b, found) ==
    LET currentId == Head(b.queue)
        rest == Tail(b.queue)
    IN IF currentId \in b.visited
       THEN [b EXCEPT !.queue = rest]
       ELSE IF currentId = b.taskId
       THEN [b EXCEPT !.queue = rest, !.visited = @ \cup {currentId}, !.result = "true"]
       ELSE [b EXCEPT !.queue = rest \o found,
                      !.visited = @ \cup {currentId},
                      !.queried = Append(@, currentId)]

\* the loop run to its end; the rows of each query are taken in one fixed order
\* (bfsStep below runs the same iteration with every order)
RECURSIVE bfsRun(_, _)
bfsRun(b, E) ==
    IF b.result # "running" THEN b
    ELSE IF b.queue = <<>> THEN [b EXCEPT !.result = "false"]
    ELSE bfsRun(bfsIteration(b, CHOOSE f \in dependenciesFound(E, Head(b.queue)) : TRUE), E)

\* a mutant of wouldCreateCircularDependency: only the self-dependency is refused
wouldCreateCircularDependencySelfOnly(E, taskId, dependsOnId) == taskId = dependsOnId

\* a mutant of wouldCreateCircularDependency: the search starts from taskId
wouldCreateCircularDependencyReversed(E, taskId, dependsOnId) ==
    IF taskId = dependsOnId THEN TRUE
    ELSE bfsRun(bfsStart(dependsOnId, taskId), E).result = "true"

wouldCreateCircularDependency(E, taskId, dependsOnId) ==
    IF taskId = dependsOnId THEN TRUE
    ELSE bfsRun(bfsStart(taskId, dependsOnId), E).result = "true"

----------------------------------------------------------------------------
(* Propagation: autoScheduleDependentTasks *)

\* a mutant of proposedStart: FINISH_TO_START without the extra day
proposedStartNoGap(type, lagDays, depTask, duration) ==
    CASE type = FINISH_TO_START -> addWorkingDays(depTask.endDate, lagDays)
      [] type = START_TO_START -> addWorkingDays(depTask.startDate, lagDays)
      [] type = FINISH_TO_FINISH ->
            addWorkingDays(addWorkingDays(depTask.endDate, lagDays), -duration + 1)
      [] type = START_TO_FINISH ->
            addWorkingDays(addWorkingDays(depTask.startDate, lagDays), -duration + 1)

\* the switch on dep.type: the start date one dependency proposes for a task of
\* the given duration; depTask is the row of the task depended on
proposedStart(type, lagDays, depTask, duration) ==
    CASE type = FINISH_TO_START -> addWorkingDays(depTask.endDate, lagDays + 1)
      [] type = START_TO_START -> addWorkingDays(depTask.startDate, lagDays)
      [] type = FINISH_TO_FINISH ->
            addWorkingDays(addWorkingDays(depTask.endDate, lagDays), -duration + 1)
      [] type = START_TO_FINISH ->
            addWorkingDays(addWorkingDays(depTask.startDate, lagDays), -duration + 1)

\* What findMany({ where: { dependsOnId: taskId }, include: { task: { include:
\* { dependencies: { include: { dependsOn } } } } } }) returns for one row: the
\* dependent task and, for each of its dependencies, the task depended on, all
\* as stored when the query runs.
dependentRow(T, E, e) ==
    [task |-> [id |-> e.taskId,
               startDate |-> T[e.taskId].startDate,
               duration |-> T[e.taskId].duration,
               isLocked |-> T[e.taskId].isLocked,
               dependencies |->
                   {[type |-> x.type, lagDays |-> x.lagDays, dependsOnId |-> x.dependsOnId,
                     dependsOn |-> [startDate |-> T[x.dependsOnId].startDate,
                                    endDate |-> T[x.dependsOnId].endDate]]
                    : x \in {y \in E : y.taskId = e.taskId}}]]

\* a mutant of dependentsFound: the rows are selected by taskId, not dependsOnId
dependentsFoundByTaskId(T, E, taskId) ==
    {[i \in 1..Len(s) |-> dependentRow(T, E, s[i])]
     : s \in SeqsOf({x \in E : x.taskId = taskId})}

\* the results the query may return: one row per stored dependency on taskId,
\* in any order
dependentsFound(T, E, taskId) ==
    {[i \in 1..Len(s) |-> dependentRow(T, E, s[i])]
     : s \in SeqsOf({x \in E : x.dependsOnId = taskId})}

\* a mutant of newStartDate: the dependencies propose nothing
newStartDateKept(t) == t.startDate

\* `let newStartDate = task.startDate; for (dep of task.dependencies) { ...
\*  if (proposedStart > newStartDate) newStartDate = proposedStart }`
newStartDate(t) ==
    Max({t.startDate} \cup
        {proposedStart(dep.type, dep.lagDays, dep.dependsOn, t.duration)
         : dep \in t.dependencies})

\* a mutant of newEndDate: the end is counted in calendar days
newEndDateCalendar(t) == newStartDate(t) + t.duration - 1

newEndDate(t) == addWorkingDays(newStartDate(t), t.duration - 1)

\* a frame of autoScheduleDependentTasks(taskId): before its query has run
\* (fetched = FALSE), and then the rows found and the index of the next one
callFrame(taskId) == [taskId |-> taskId, fetched |-> FALSE, dependents |-> <<>>, i |-> 1]

Top == stack[Len(stack)]
\* a mutant of Pop: the frame of a call that returns stays on the stack
PopNone == stack

Pop == SubSeq(stack, 1, Len(stack) - 1)
Running == stack # <<>>

\* the query at the head of autoScheduleDependentTasks
fetchDependents ==
    /\ Running /\ ~Top.fetched
    /\ \E found \in dependentsFound(task, edges, Top.taskId) :
          stack' = [stack EXCEPT ![Len(stack)] =
                       [@ EXCEPT !.fetched = TRUE, !.dependents = found]]
    /\ UNCHANGED <<task, edges, ops, last, bfs, wd, calls>>

\* a mutant of isSkipped: locked tasks are rescheduled like the others
isSkippedNever(t) == FALSE

\* `if (task.isLocked) continue`, on the row the query returned
isSkipped(t) == t.isLocked

skipLocked ==
    /\ Running /\ Top.fetched /\ Top.i <= Len(Top.dependents)
    /\ isSkipped(Top.dependents[Top.i].task)
    /\ stack' = [stack EXCEPT ![Len(stack)] = [@ EXCEPT !.i = @ + 1]]
    /\ UNCHANGED <<task, edges, ops, last, bfs, wd, calls>>

\* one pass of the for loop on an unlocked dependent: compute the dates from the
\* rows the query returned, prisma.task.update, then the recursive call
rescheduleDependent ==
    /\ Running /\ Top.fetched /\ Top.i <= Len(Top.dependents)
    /\ LET t == Top.dependents[Top.i].task
       IN /\ ~isSkipped(t)
          /\ t.id \in DOMAIN task   \* no call deletes a row while a propagation runs
          /\ task' = [task EXCEPT ![t.id] =
                        [@ EXCEPT !.startDate = newStartDate(t), !.endDate = newEndDate(t)]]
          /\ stack' = Append([stack EXCEPT ![Len(stack)] = [@ EXCEPT !.i = @ + 1]],
                             callFrame(t.id))
    /\ UNCHANGED <<edges, ops, last, bfs, wd, calls>>

\* the for loop is over: the call returns
returnFromCall ==
    /\ Running /\ Top.fetched /\ Top.i > Len(Top.dependents)
    /\ stack' = Pop
    /\ UNCHANGED <<task, edges, ops, last, bfs, wd, calls>>

\* autoScheduleDependentTasks(taskId) run to its end on the store (T, E) with
\* no store error: the task tables it can leave, one for each order in which
\* the queries can return their rows. scheduleLoop is the for loop from row i
\* on, over the rows one query returned.
RECURSIVE autoScheduleDependentTasks(_, _, _)
RECURSIVE scheduleLoop(_, _, _, _)
scheduleLoop(T, E, dependents, i) ==
    IF i > Len(dependents) THEN {T}
    ELSE LET t == dependents[i].task
         IN IF isSkipped(t) THEN scheduleLoop(T, E, dependents, i + 1)
            ELSE LET updated == [T EXCEPT ![t.id] =
                                   [@ EXCEPT !.startDate = newStartDate(t),
                                             !.endDate = newEndDate(t)]]
                 IN UNION {scheduleLoop(T2, E, dependents, i + 1)
                           : T2 \in autoScheduleDependentTasks(updated, E, t.id)}

autoScheduleDependentTasks(T, E, taskId) ==
    UNION {scheduleLoop(T, E, dependents, 1) : dependents \in dependentsFound(T, E, taskId)}

----------------------------------------------------------------------------
(* The service calls *)

NoDuration == 0
NoFlag == "undefined"

\* createTask without data.duration: the row stored for a new task
createTask(projectId, startDate, endDate, isLocked) ==
    [startDate |-> startDate, endDate |-> endDate,
     duration |-> calculateDuration(startDate, endDate),
     isLocked |-> isLocked, projectId |-> projectId]

\* the record of a service call, kept until the next call
Call(op, taskId, dependsOnId, outcome, propagated, root, noEdit) ==
    [op |-> op, taskId |-> taskId, dependsOnId |-> dependsOnId, outcome |-> outcome,
     propagated |-> propagated, \* the call started autoScheduleDependentTasks,
     root |-> root,             \* on this task (read only when propagated)
     noEdit |-> noEdit,         \* the call itself changed no row before propagating
     prevRoot |-> IF last.propagated THEN {last.root} ELSE {},
     preTask |-> task, preEdges |-> edges]

Idle == ~Running /\ ops < MaxOps

\* the edits offered to updateTask; an absent field is NoDate / NoDuration / NoFlag
UpdateInputs ==
    [startDate : {NoDate, 3}, endDate : {NoDate, 5},
     duration : {NoDuration}, isLocked : {NoFlag, "true", "false"}]

\* the row tx.task.update stores (an undefined field is left as it is)
updatedRow(row, data) ==
    [row EXCEPT
       !.startDate = IF data.startDate # NoDate THEN data.startDate ELSE @,
       !.endDate = IF data.endDate # NoDate THEN data.endDate ELSE @,
       !.duration = IF data.startDate # NoDate /\ data.endDate # NoDate
                    THEN IF data.duration # NoDuration THEN data.duration
                         ELSE calculateDuration(data.startDate, data.endDate)
                    ELSE @,
       !.isLocked = IF data.isLocked # NoFlag THEN data.isLocked = "true" ELSE @]

\* a mutant of updateTriggersScheduling: the lock of the edited task is ignored
updateTriggersSchedulingAlways(data, updatedTask) ==
    data.startDate # NoDate \/ data.endDate # NoDate

\* `(data.startDate || data.endDate) && !updatedTask.isLocked`
updateTriggersScheduling(data, updatedTask) ==
    (data.startDate # NoDate \/ data.endDate # NoDate) /\ ~updatedTask.isLocked

updateTask(taskId, data) ==
    /\ Idle
    /\ ops' = ops + 1
    /\ IF taskId \notin DOMAIN task
       THEN /\ last' = Call("updateTask", taskId, taskId, "TaskNotFound", FALSE, taskId, TRUE)
            /\ UNCHANGED <<task, stack>>
       ELSE LET updated == updatedRow(task[taskId], data)
                trigger == updateTriggersScheduling(data, updated)
            IN /\ task' = [task EXCEPT ![taskId] = updated]
               /\ stack' = IF trigger THEN <<callFrame(taskId)>> ELSE <<>>
               /\ last' = Call("updateTask", taskId, taskId, "ok", trigger, taskId,
                               updated = task[taskId])
    /\ UNCHANGED <<edges, bfs, wd, calls>>

\* The store removes the dependency rows of a deleted task with it (the schema
\* is not part of the sources; the data model states the cascade).
cascadeDelete(E, taskId) == {e \in E : e.taskId # taskId /\ e.dependsOnId # taskId}

deleteTask(taskId) ==
    /\ Idle
    /\ ops' = ops + 1
    /\ IF taskId \notin DOMAIN task
       THEN /\ last' = Call("deleteTask", taskId, taskId, "TaskNotFound", FALSE, taskId, TRUE)
            /\ UNCHANGED <<task, edges>>
       ELSE /\ task' = [t \in DOMAIN task \ {taskId} |-> task[t]]
            /\ edges' = cascadeDelete(edges, taskId)
            /\ last' = Call("deleteTask", taskId, taskId, "ok", FALSE, taskId, FALSE)
    /\ UNCHANGED <<stack, bfs, wd, calls>>

\* a mutant of addDependencyOutcome: the projects are not compared
addDependencyOutcomeAnyProject(T, E, taskId, dependsOnId) ==
    IF taskId \notin DOMAIN T \/ dependsOnId \notin DOMAIN T THEN "TaskNotFound"
    ELSE IF wouldCreateCircularDependency(E, taskId, dependsOnId) THEN "CycleDetected"
    ELSE "ok"

\* the checks of addDependency, in the order the code makes them
addDependencyOutcome(T, E, taskId, dependsOnId) ==
    IF taskId \notin DOMAIN T \/ dependsOnId \notin DOMAIN T THEN "TaskNotFound"
    ELSE IF T[taskId].projectId # T[dependsOnId].projectId THEN "CrossProject"
    ELSE IF wouldCreateCircularDependency(E, taskId, dependsOnId) THEN "CycleDetected"
    ELSE "ok"

\* a mutant of dependenciesAfterAdd: the row is created before the checks throw
dependenciesAfterAddEager(E, outcome, e) == E \cup {e}

\* prisma.taskDependency.create runs only when no check has thrown
dependenciesAfterAdd(E, outcome, e) == IF outcome = "ok" THEN E \cup {e} ELSE E

\* a mutant of addDependencyTriggersScheduling: the lock of the dependent is ignored
addDependencyTriggersSchedulingAlways(outcome, T, taskId) == outcome = "ok"

\* `if (!task.isLocked)` after the create, on the dependent as getTaskById read it
addDependencyTriggersScheduling(outcome, T, taskId) ==
    outcome = "ok" /\ ~T[taskId].isLocked

addDependency(taskId, dependsOnId, type, lagDays) ==
    /\ Idle
    /\ ops' = ops + 1
    /\ LET outcome == addDependencyOutcome(task, edges, taskId, dependsOnId)
           trigger == addDependencyTriggersScheduling(outcome, task, taskId)
       IN /\ edges' = dependenciesAfterAdd(edges, outcome,
                                           Edge(taskId, dependsOnId, type, lagDays))
          /\ stack' = IF trigger THEN <<callFrame(dependsOnId)>> ELSE <<>>
          /\ last' = Call("addDependency", taskId, dependsOnId, outcome,
                          trigger, dependsOnId, FALSE)
    /\ UNCHANGED <<task, bfs, wd, calls>>

removeDependency(taskId, dependsOnId) ==
    /\ Idle
    /\ ops' = ops + 1
    /\ IF taskId \notin DOMAIN task
       THEN /\ last' = Call("removeDependency", taskId, dependsOnId, "TaskNotFound",
                            FALSE, taskId, TRUE)
            /\ UNCHANGED edges
       ELSE /\ edges' = {e \in edges : ~(e.taskId = taskId /\ e.dependsOnId = dependsOnId)}
            /\ last' = Call("removeDependency", taskId, dependsOnId, "ok",
                            FALSE, taskId, FALSE)
    /\ UNCHANGED <<task, stack, bfs, wd, calls>>

----------------------------------------------------------------------------
(* The system: service calls made one at a time, each run to its end *)

\* no service call has been made
NoCall == [op |-> "none", outcome |-> "none", propagated |-> FALSE]

\* no cycle check is being run
\* no service calls run concurrently
NoCalls == <<>>

NoBfs == [result |-> "idle"]

NoWd == [startDate |-> NoDate, days |-> 0, result |-> NoDate, done |-> FALSE]

\* finish-to-start links between the tasks, as earlier addDependency calls leave them
InitLinks == {Edge(t, d, FINISH_TO_START, 0) : t \in Tasks, d \in Tasks} \ 
             {e \in {Edge(t, d, FINISH_TO_START, 0) : t \in Tasks, d \in Tasks}
              : e.taskId <= e.dependsOnId}

\* the tasks as createTask stores them: each starts on Monday (day 1), unlocked;
\* task 2 ends on Tuesday (two working days), the others on Monday
createdTasks(lastProject) ==
    [t \in Tasks |->
       createTask(IF t = NumTasks THEN lastProject ELSE 1, 1, IF t = 2 THEN 2 ELSE 1, FALSE)]

\* A project with its tasks created and some of them linked; the last task may
\* belong to a second project.
Init ==
    /\ \E lastProject \in {1, 2} : task = createdTasks(lastProject)
    /\ edges \in SUBSET InitLinks
    /\ \A e \in edges : task[e.taskId].projectId = task[e.dependsOnId].projectId
    /\ stack = <<>>
    /\ ops = 0
    /\ last = NoCall
    /\ bfs = NoBfs
    /\ calls = NoCalls
    /\ wd = NoWd

Next ==
    \/ \E t \in Tasks, data \in UpdateInputs : updateTask(t, data)
    \/ \E t \in Tasks : deleteTask(t)
    \/ \E t \in Tasks, d \in Tasks, ty \in DependencyType, lag \in 0..MaxLag :
          addDependency(t, d, ty, lag)
    \/ \E t \in Tasks, d \in Tasks : removeDependency(t, d)
    \/ fetchDependents
    \/ skipLocked
    \/ rescheduleDependent
    \/ returnFromCall

Spec == Init /\ [][Next]_vars

----------------------------------------------------------------------------
(* The cycle check on its own: wouldCreateCircularDependency run on any stored
   edge set, one loop iteration per step *)

\* the edge sets the check is run on: any links between different tasks, also
\* cyclic ones and parallel links of two types
GraphLinks ==
    {Edge(t, d, ty, 0) : t \in Tasks, d \in Tasks, ty \in {FINISH_TO_START, START_TO_START}}
    \ {Edge(t, t, ty, 0) : t \in Tasks, ty \in {FINISH_TO_START, START_TO_START}}

\* the subsets of S of at most k elements
RECURSIVE SubsetsUpTo(_, _)
SubsetsUpTo(S, k) ==
    IF k = 0 THEN {{}}
    ELSE LET smaller == SubsetsUpTo(S, k - 1)
         IN smaller \cup {E \cup {x} : E \in smaller, x \in S}

InitCycle ==
    /\ task = createdTasks(1)
    /\ edges \in SubsetsUpTo(GraphLinks, MaxGraphEdges)
    /\ stack = <<>>
    /\ ops = 0
    /\ last = NoCall
    /\ \E t \in Tasks, d \in Tasks :
          bfs = [taskId |-> t, dependsOnId |-> d, queue |-> <<>>,
                 visited |-> {}, queried |-> <<>>, result |-> "called"]
    /\ wd = NoWd
    /\ calls = NoCalls

\* `if (taskId === dependsOnId) return true`, else the queue is set up
bfsEnter ==
    /\ bfs.result = "called"
    /\ bfs' = IF bfs.taskId = bfs.dependsOnId
              THEN [bfs EXCEPT !.result = "true"]
              ELSE bfsStart(bfs.taskId, bfs.dependsOnId)
    /\ UNCHANGED <<task, edges, stack, ops, last, wd, calls>>

\* one iteration of `while (queue.length > 0)`
bfsStep ==
    /\ bfs.result = "running" /\ bfs.queue # <<>>
    /\ \E found \in dependenciesFound(edges, Head(bfs.queue)) :
          bfs' = bfsIteration(bfs, found)
    /\ UNCHANGED <<task, edges, stack, ops, last, wd, calls>>

\* the queue is empty: `return false`
bfsExhausted ==
    /\ bfs.result = "running" /\ bfs.queue = <<>>
    /\ bfs' = [bfs EXCEPT !.result = "false"]
    /\ UNCHANGED <<task, edges, stack, ops, last, wd, calls>>

NextCycle == bfsEnter \/ bfsStep \/ bfsExhausted

SpecCycle == InitCycle /\ [][NextCycle]_vars

\* the check is awaited by addDependency and the store answers each query: a
\* loop that can take a step takes it
SpecCycleLive == InitCycle /\ [][NextCycle]_vars /\ WF_vars(NextCycle)

----------------------------------------------------------------------------
(* The working-day primitive on its own *)

InitDays ==
    /\ task = createdTasks(1)
    /\ edges = {}
    /\ stack = <<>>
    /\ ops = 0
    /\ last = NoCall
    /\ bfs = NoBfs
    /\ calls = NoCalls
    /\ \E d \in 0..MaxDay, n \in (0 - MaxDays)..MaxDays :
          wd = [NoWd EXCEPT !.startDate = d, !.days = n]

applyAddWorkingDays ==
    /\ ~wd.done
    /\ wd' = [wd EXCEPT !.result = addWorkingDays(wd.startDate, wd.days), !.done = TRUE]
    /\ UNCHANGED <<task, edges, stack, ops, last, bfs, calls>>

NextDays == applyAddWorkingDays

SpecDays == InitDays /\ [][NextDays]_vars

----------------------------------------------------------------------------
(* Store errors: prisma.task.update may reject (the row is gone, the store
   cannot be reached). autoScheduleDependentTasks, updateTask and addDependency
   await it with no try/catch around it. *)

\* the ids of the unlocked rows that come after the current one in the loop of
\* the frame
siblingsLeft(frame) ==
    {frame.dependents[j].task.id : j \in {k \in (frame.i + 1)..Len(frame.dependents) :
                                            ~isSkipped(frame.dependents[k].task)}}

\* a mutant of tableAfterRejection: the whole call is undone
tableAfterRejectionRolledBack(T, call) == call.preTask

\* The Task table once an update was rejected. The transaction of updateTask
\* has committed before autoScheduleDependentTasks is called, and each update
\* of a propagation is a statement of its own: nothing is undone.
tableAfterRejection(T, call) == T

\* prisma.task.update rejects for the dependent the loop is on: the rejection
\* passes through every pending autoScheduleDependentTasks call and through
\* the service call that awaits the first of them, which rejects too
storeError ==
    /\ Running /\ Top.fetched /\ Top.i <= Len(Top.dependents)
    /\ ~isSkipped(Top.dependents[Top.i].task)
    /\ last.outcome \in {"ok", "retried"}
    /\ stack' = <<>>
    /\ last' = [failedOn |-> Top.dependents[Top.i].task.id,
                failedUnder |-> Top.taskId,
                siblings |-> siblingsLeft(Top)]
               @@ [last EXCEPT !.outcome = "StoreError"]
    /\ task' = tableAfterRejection(task, last)
    /\ UNCHANGED <<edges, ops, bfs, wd, calls>>

\* The caller re-triggers the propagation that failed: updateTask on the same
\* root, resupplying the startDate the root has, which changes no row and
\* calls autoScheduleDependentTasks(root). The record of the failed call is
\* kept, with the store as it was before that call.
retryPropagation ==
    /\ Idle
    /\ last.outcome = "StoreError"
    /\ updateTriggersScheduling([startDate |-> task[last.root].startDate,
                                 endDate |-> NoDate, duration |-> NoDuration,
                                 isLocked |-> NoFlag],
                                task[last.root])
    /\ ops' = ops + 1
    /\ stack' = <<callFrame(last.root)>>
    /\ last' = [last EXCEPT !.outcome = "retried"]
    /\ UNCHANGED <<task, edges, bfs, wd, calls>>

\* the project the store errors are studied on has one task more
FaultTasks == 1..(NumTasks + 1)

FaultLinks == {Edge(t, d, FINISH_TO_START, 0) : t \in FaultTasks, d \in FaultTasks} \ 
              {e \in {Edge(t, d, FINISH_TO_START, 0) : t \in FaultTasks, d \in FaultTasks}
               : e.taskId <= e.dependsOnId}

\* One project: its tasks as createTask stores them (each starts on Monday,
\* unlocked; task 2 has two working days), some of them linked.
InitFaults ==
    /\ task = [t \in FaultTasks |-> createTask(1, 1, IF t = 2 THEN 2 ELSE 1, FALSE)]
    /\ edges \in SUBSET FaultLinks
    /\ stack = <<>>
    /\ ops = 0
    /\ last = NoCall
    /\ bfs = NoBfs
    /\ calls = NoCalls
    /\ wd = NoWd

NextFaults ==
    \/ \E t \in FaultTasks, data \in UpdateInputs : updateTask(t, data)
    \/ \E t \in Tasks, d \in Tasks : addDependency(t, d, FINISH_TO_START, 0)
    \/ fetchDependents
    \/ skipLocked
    \/ rescheduleDependent
    \/ returnFromCall
    \/ storeError
    \/ retryPropagation

SpecFaults == InitFaults /\ [][NextFaults]_vars

----------------------------------------------------------------------------
(* Durations: tasks created and edited with any dates (an end before the
   start, a range of weekend days only) and with or without data.duration *)

\* createTask: `data.duration || this.calculateDuration(startDate, endDate)`
\* and `isLocked: data.isLocked || false`
createTaskFrom(data) ==
    [createTask(1, data.startDate, data.endDate, data.isLocked) EXCEPT
       !.duration = IF data.duration # NoDuration THEN data.duration ELSE @]

\* day 5 is a Friday, 6 a Saturday, 7 a Sunday, 8 a Monday
CreateInputs ==
    {[startDate |-> 5, endDate |-> 8, duration |-> NoDuration, isLocked |-> FALSE],
     [startDate |-> 6, endDate |-> 7, duration |-> NoDuration, isLocked |-> TRUE],
     [startDate |-> 6, endDate |-> 5, duration |-> NoDuration, isLocked |-> FALSE],
     [startDate |-> 5, endDate |-> 5, duration |-> 3, isLocked |-> FALSE]}

DurationInputs ==
    [startDate : {NoDate, 6}, endDate : {NoDate, 5, 7},
     duration : {NoDuration, 3}, isLocked : {NoFlag}]

InitDurations ==
    /\ \E data \in [Tasks -> CreateInputs] :
          task = [t \in Tasks |-> createTaskFrom(data[t])]
    /\ edges \in SUBSET InitLinks
    /\ stack = <<>>
    /\ ops = 0
    /\ last = NoCall
    /\ bfs = NoBfs
    /\ calls = NoCalls
    /\ wd = NoWd

NextDurations ==
    \/ \E t \in Tasks, data \in DurationInputs : updateTask(t, data)
    \/ fetchDependents
    \/ skipLocked
    \/ rescheduleDependent
    \/ returnFromCall

SpecDurations == InitDurations /\ [][NextDurations]_vars

----------------------------------------------------------------------------
(* The proposed start of one dependency on its own: the switch on dep.type
   applied to any type, any lagDays the schema admits (negative ones too), a
   predecessor anywhere in a week and a dependent of one or two working days *)

InitLag ==
    /\ task = createdTasks(1)
    /\ edges = {}
    /\ stack = <<>>
    /\ ops = 0
    /\ last = NoCall
    /\ bfs = NoBfs
    /\ calls = NoCalls
    /\ \E ty \in DependencyType, lag \in (0 - MaxLead)..MaxLag,
          s \in 7..MaxDay, len \in 0..1, duration \in 1..2 :
          wd = [type |-> ty, lagDays |-> lag,
                dependsOn |-> [startDate |-> s, endDate |-> s + len],
                duration |-> duration, result |-> NoDate, done |-> FALSE]

applyProposedStart ==
    /\ ~wd.done
    /\ wd' = [wd EXCEPT !.result = proposedStart(wd.type, wd.lagDays, wd.dependsOn,
                                                  wd.duration),
                         !.done = TRUE]
    /\ UNCHANGED <<task, edges, stack, ops, last, bfs, calls>>

NextLag == applyProposedStart

SpecLag == InitLag /\ [][NextLag]_vars

----------------------------------------------------------------------------
(* Reachability in the dependency graph, stated on paths *)

\* there is a path of one or more stored edges from `from` to `to`, each edge
\* followed from a task to a task it depends on
DependsOnPath(E, from, to) ==
    \E n \in 1..NumTasks :
       \E p \in [1..(n + 1) -> Tasks] :
          /\ p[1] = from
          /\ p[n + 1] = to
          /\ \A i \in 1..n : \E e \in E : e.taskId = p[i] /\ e.dependsOnId = p[i + 1]

Acyclic(E) == \A t \in Tasks : ~DependsOnPath(E, t, t)

BfsDone == bfs.result \in {"true", "false"}

----------------------------------------------------------------------------
(* Propagation runs on any acyclic graph, and their progress *)

\* a project whose tasks are linked by any acyclic set of links, as accepted
\* addDependency calls can leave it
InitLive ==
    /\ task = createdTasks(1)
    /\ edges \in {E \in SubsetsUpTo(GraphLinks, MaxGraphEdges) : Acyclic(E)}
    /\ stack = <<>>
    /\ ops = 0
    /\ last = NoCall
    /\ bfs = NoBfs
    /\ calls = NoCalls
    /\ wd = NoWd

\* a step of a running propagation
PropagationStep == fetchDependents \/ skipLocked \/ rescheduleDependent \/ returnFromCall

NextLive ==
    \/ \E t \in Tasks, data \in UpdateInputs : updateTask(t, data)
    \/ PropagationStep

\* The service awaits every query, update and recursive call of a propagation,
\* and the store answers each of them: a propagation that can take a step
\* takes it. Service calls are made whenever callers make them (no fairness).
SpecLive == InitLive /\ [][NextLive]_vars /\ WF_vars(PropagationStep)

----------------------------------------------------------------------------
(* Service calls that run concurrently.  A call is a chain of awaited store  *)
(* operations; nothing in the service orders the operations of two calls,   *)
(* so between two awaits of one call any awaits of the other may run.  Each *)
(* call has its own position and its own stack of autoScheduleDependentTasks *)
(* frames, with the rows its queries returned.                               *)

CallIds == {1, 2}
MaxDepth == 4        \* frames one concurrent call may have on its stack

TopOf(c) == calls[c].stack[Len(calls[c].stack)]
Scheduling(c) == calls[c].pc = "scheduling"
Returned(c) == calls[c].pc \in {"returned", "rejected"}

\* `await this.autoScheduleDependentTasks(root)` in call c
startScheduling(c, root) ==
    [calls EXCEPT ![c] = [@ EXCEPT !.pc = "scheduling", !.stack = <<callFrame(root)>>]]

\* the query at the head of autoScheduleDependentTasks, in call c
fetchDependentsIn(c) ==
    /\ Scheduling(c) /\ ~TopOf(c).fetched
    /\ \E found \in dependentsFound(task, edges, TopOf(c).taskId) :
          calls' = [calls EXCEPT ![c].stack[Len(calls[c].stack)] =
                       [@ EXCEPT !.fetched = TRUE, !.dependents = found]]
    /\ UNCHANGED <<task, edges, stack, ops, last, bfs, wd>>

\* `if (task.isLocked) continue`, in call c
skipLockedIn(c) ==
    /\ Scheduling(c) /\ TopOf(c).fetched /\ TopOf(c).i <= Len(TopOf(c).dependents)
    /\ isSkipped(TopOf(c).dependents[TopOf(c).i].task)
    /\ calls' = [calls EXCEPT ![c].stack[Len(calls[c].stack)] = [@ EXCEPT !.i = @ + 1]]
    /\ UNCHANGED <<task, edges, stack, ops, last, bfs, wd>>

\* one pass of the for loop on an unlocked dependent, in call c: the dates come
\* from the rows call c read, the write goes to the shared store
rescheduleDependentIn(c) ==
    /\ Scheduling(c) /\ TopOf(c).fetched /\ TopOf(c).i <= Len(TopOf(c).dependents)
    /\ Len(calls[c].stack) < MaxDepth
    /\ LET t == TopOf(c).dependents[TopOf(c).i].task
       IN /\ ~isSkipped(t)
          /\ task' = [task EXCEPT ![t.id] =
                        [@ EXCEPT !.startDate = newStartDate(t), !.endDate = newEndDate(t)]]
          /\ calls' = [calls EXCEPT ![c].stack =
                          Append([@ EXCEPT ![Len(@)] = [@ EXCEPT !.i = @ + 1]],
                                 callFrame(t.id))]
    /\ UNCHANGED <<edges, stack, ops, last, bfs, wd>>

\* the for loop is over in the top frame of call c; the call itself returns
\* when its first frame does
returnFromCallIn(c) ==
    /\ Scheduling(c) /\ TopOf(c).fetched /\ TopOf(c).i > Len(TopOf(c).dependents)
    /\ calls' = [calls EXCEPT ![c] =
                    [@ EXCEPT !.stack = SubSeq(@, 1, Len(@) - 1),
                              !.pc = IF Len(calls[c].stack) = 1 THEN "returned" ELSE @]]
    /\ UNCHANGED <<task, edges, stack, ops, last, bfs, wd>>

PropagationStepIn(c) ==
    \/ fetchDependentsIn(c)
    \/ skipLockedIn(c)
    \/ rescheduleDependentIn(c)
    \/ returnFromCallIn(c)

(* Two addDependency calls at once *)

addDependencyCall(taskId, dependsOnId) ==
    [op |-> "addDependency", taskId |-> taskId, dependsOnId |-> dependsOnId,
     pc |-> "called", outcome |-> "none", isLocked |-> FALSE, stack |-> <<>>]

\* getTaskById twice, the project comparison and the cycle check of call c, on
\* the store as it is when they run; `task` is the row read here
addDependencyChecks(c) ==
    /\ calls[c].pc = "called"
    /\ LET outcome == addDependencyOutcome(task, edges, calls[c].taskId, calls[c].dependsOnId)
       IN calls' = [calls EXCEPT ![c] =
                       [@ EXCEPT !.outcome = outcome,
                                 !.pc = IF outcome = "ok" THEN "checked" ELSE "rejected",
                                 !.isLocked = IF calls[c].taskId \in DOMAIN task
                                              THEN task[calls[c].taskId].isLocked ELSE @]]
    /\ UNCHANGED <<task, edges, stack, ops, last, bfs, wd>>

\* prisma.taskDependency.create of call c, then `if (!task.isLocked)`
addDependencyCreate(c) ==
    /\ calls[c].pc = "checked"
    /\ edges' = dependenciesAfterAdd(edges, calls[c].outcome,
                     Edge(calls[c].taskId, calls[c].dependsOnId, FINISH_TO_START, 0))
    /\ calls' = IF ~calls[c].isLocked
                THEN startScheduling(c, calls[c].dependsOnId)
                ELSE [calls EXCEPT ![c].pc = "returned"]
    /\ UNCHANGED <<task, stack, ops, last, bfs, wd>>

\* the tasks of one project, the last one locked or none, with at most one
\* link; two addDependency calls have been made and neither has run yet
InitAddRace ==
    /\ \E locked \in {0, NumTasks} :
          task = [t \in Tasks |-> [createdTasks(1)[t] EXCEPT !.isLocked = (t = locked)]]
    /\ edges \in SubsetsUpTo(InitLinks, 1)
    /\ stack = <<>>
    /\ ops = 0
    /\ last = NoCall
    /\ bfs = NoBfs
    /\ wd = NoWd
    /\ calls \in [CallIds -> {addDependencyCall(t, d) : t \in Tasks, d \in Tasks}]

NextAddRace ==
    \E c \in CallIds :
       \/ addDependencyChecks(c)
       \/ addDependencyCreate(c)
       \/ PropagationStepIn(c)

SpecAddRace == InitAddRace /\ [][NextAddRace]_vars

(* Two updateTask calls at once *)

updateTaskCall(taskId, data, stored) ==
    [op |-> "updateTask", taskId |-> taskId, data |-> data,
     pc |-> "called", stack |-> <<>>,
     preTask |-> stored]    \* the Task table when the calls were made

\* the dates an update supplies
RaceInputs ==
    [startDate : {NoDate, 3}, endDate : {NoDate, 5},
     duration : {NoDuration}, isLocked : {NoFlag}]

\* getTaskById and the transaction of call c, then
\* `if ((data.startDate || data.endDate) && !updatedTask.isLocked)`
updateTaskTransaction(c) ==
    /\ calls[c].pc = "called"
    /\ LET taskId == calls[c].taskId
           updated == updatedRow(task[taskId], calls[c].data)
       IN /\ task' = [task EXCEPT ![taskId] = updated]
          /\ calls' = IF updateTriggersScheduling(calls[c].data, updated)
                      THEN startScheduling(c, taskId)
                      ELSE [calls EXCEPT ![c].pc = "returned"]
    /\ UNCHANGED <<edges, stack, ops, last, bfs, wd>>

\* the tasks of one project, the last one locked or none, linked without a
\* cycle; two updateTask calls on different tasks have been made and neither
\* has run yet
InitUpdateRace ==
    /\ \E locked \in {0, NumTasks} :
          task = [t \in Tasks |-> [createdTasks(1)[t] EXCEPT !.isLocked = (t = locked)]]
    /\ edges \in SUBSET InitLinks
    /\ stack = <<>>
    /\ ops = 0
    /\ last = NoCall
    /\ bfs = NoBfs
    /\ wd = NoWd
    /\ \E t1 \in Tasks, t2 \in Tasks, d1 \in RaceInputs, d2 \in RaceInputs :
          /\ t1 # t2
          /\ calls = [c \in CallIds |->
                        IF c = 1 THEN updateTaskCall(t1, d1, task)
                                 ELSE updateTaskCall(t2, d2, task)]

NextUpdateRace ==
    \E c \in CallIds :
       \/ updateTaskTransaction(c)
       \/ PropagationStepIn(c)

SpecUpdateRace == InitUpdateRace /\ [][NextUpdateRace]_vars

----------------------------------------------------------------------------
(* Claims *)

\* C1: wouldCreateCircularDependency(taskId, dependsOnId) returns true exactly
\* when taskId = dependsOnId or taskId is reachable from dependsOnId along
\* depends-on edges, on every edge set (cyclic ones and parallel edges included)
\* and with every order in which the store returns the rows.
C1_CycleCheckExact ==
    BfsDone =>
       /\ (bfs.result = "true") <=>
             (bfs.taskId = bfs.dependsOnId
              \/ DependsOnPath(edges, bfs.dependsOnId, bfs.taskId))
       /\ wouldCreateCircularDependency(edges, bfs.taskId, bfs.dependsOnId)
             <=> (bfs.result = "true")

\* C1 witness: the check has answered true for two different tasks that are
\* linked only through a third one
C1_Witness ==
    /\ bfs.result = "true"
    /\ bfs.taskId # bfs.dependsOnId
    /\ ~\E e \in edges : e.taskId = bfs.dependsOnId /\ e.dependsOnId = bfs.taskId
    /\ Len(bfs.queried) >= 2

\* C10: addWorkingDays(d, N) with N = 0 returns d, also on a weekend day; with
\* N >= 1 it returns the N-th working day strictly after d, so Friday + 1 is the
\* following Monday and the result is never a weekend day.
C10_AddWorkingDaysForward ==
    (wd.done /\ wd.days >= 0) =>
       IF wd.days = 0
       THEN wd.result = wd.startDate
       ELSE /\ wd.result > wd.startDate
            /\ isWorkingDay(wd.result)
            /\ Cardinality({x \in (wd.startDate + 1)..wd.result : isWorkingDay(x)}) = wd.days
            /\ (getDay(wd.startDate) = 5 /\ wd.days = 1) => wd.result = wd.startDate + 3

\* C10 witness: a Friday advanced by one working day is the Monday after it
C10_Witness ==
    /\ wd.done
    /\ getDay(wd.startDate) = 5
    /\ wd.days = 1
    /\ wd.result = wd.startDate + 3
    /\ getDay(wd.result) = 1

\* a service call has run to its end (its propagation included)
Settled == ~Running /\ last.op # "none"

\* the response TaskController.addDependency sends: 201 on success, 400 with
\* code DEPENDENCY_ADD_FAILED when the service call throws
addDependencyResponse(outcome) == IF outcome = "ok" THEN 201 ELSE 400

\* C2: with addDependency, removeDependency and deleteTask (and updateTask)
\* called one at a time from an acyclic graph, the stored graph stays acyclic.
C2_GraphStaysAcyclic == Acyclic(edges)

\* C2 witness: two calls were made, the last an accepted addDependency, and the
\* graph holds a chain of links through all three tasks
C2_Witness ==
    /\ Settled
    /\ ops = MaxOps
    /\ last.op = "addDependency" /\ last.outcome = "ok"
    /\ \E a \in Tasks, b \in Tasks, c \in Tasks :
          /\ a # b /\ b # c /\ a # c
          /\ DependsOnPath(edges, a, b) /\ DependsOnPath(edges, b, c)

\* C3: an addDependency refused by the cycle check answers with an error and
\* leaves the stored edges and every task row as they were before the call; no
\* propagation is started.
C3_RejectedAddChangesNothing ==
    (last.op = "addDependency" /\ last.outcome = "CycleDetected") =>
       /\ addDependencyResponse(last.outcome) = 400
       /\ edges = last.preEdges
       /\ task = last.preTask
       /\ ~Running

\* C3 witness: B depends on A through a third task only, and "A depends on B"
\* has been refused
C3_Witness ==
    /\ last.op = "addDependency" /\ last.outcome = "CycleDetected"
    /\ last.taskId # last.dependsOnId
    /\ ~\E e \in edges : e.taskId = last.dependsOnId /\ e.dependsOnId = last.taskId
    /\ DependsOnPath(edges, last.dependsOnId, last.taskId)

\* the cycle check has decided the last call (both tasks exist, same project)
CycleCheckDecided ==
    last.op = "addDependency" /\ last.outcome \in {"ok", "CycleDetected"}

\* C9 as worded: for the proposed edge taskId = a, dependsOnId = b, the check
\* returns true if b is reachable from a along stored edges, and false if b is
\* not reachable from a and a # b.
C9_AsWorded ==
    CycleCheckDecided =>
       /\ DependsOnPath(last.preEdges, last.taskId, last.dependsOnId)
             => last.outcome = "CycleDetected"
       /\ (~DependsOnPath(last.preEdges, last.taskId, last.dependsOnId)
           /\ last.taskId # last.dependsOnId) => last.outcome = "ok"

\* C9 amended: the check returns true if a is reachable from b (the proposed
\* dependency already depends, directly or not, on the task), and false if a is
\* not reachable from b and a # b.
C9_RejectsWhenTaskReachableFromDependency ==
    CycleCheckDecided =>
       /\ DependsOnPath(last.preEdges, last.dependsOnId, last.taskId)
             => last.outcome = "CycleDetected"
       /\ (~DependsOnPath(last.preEdges, last.dependsOnId, last.taskId)
           /\ last.taskId # last.dependsOnId) => last.outcome = "ok"

\* C9 witness: a link from a to b was accepted although b was already
\* reachable from a (a redundant link, which closes no cycle)
C9_Witness ==
    /\ CycleCheckDecided
    /\ last.outcome = "ok"
    /\ DependsOnPath(last.preEdges, last.taskId, last.dependsOnId)

----------------------------------------------------------------------------
(* Claims about propagation *)

\* a propagation was started by the last call
Propagated == last.propagated

\* t is downstream of root along dependent-of edges whose tasks after root,
\* t included, are all unlocked
DownstreamUnlocked(E, T, root, t) ==
    \E n \in 1..NumTasks :
       \E p \in [1..(n + 1) -> Tasks] :
          /\ p[1] = root
          /\ p[n + 1] = t
          /\ \A i \in 1..n :
                /\ \E e \in E : e.taskId = p[i + 1] /\ e.dependsOnId = p[i]
                /\ p[i + 1] \in DOMAIN T
                /\ ~T[p[i + 1]].isLocked

\* the stored edges on P whose dependent has no other edge
SoleEdgesOn(P) ==
    {e \in edges : e.dependsOnId = P /\ \A x \in edges : x.taskId = e.taskId => x = e}

\* the first working day strictly after d
NextWorkingDayAfter(d) ==
    CHOOSE x \in (d + 1)..(d + 3) :
       isWorkingDay(x) /\ \A y \in (d + 1)..(x - 1) : ~isWorkingDay(y)

\* C4: a locked task is never written by a propagation and is never recursed
\* through: during and after autoScheduleDependentTasks(root), no call frame
\* above the root's is on a locked task, and every task other than root that is
\* not downstream of root through unlocked tasks only (so every locked task,
\* and every task reached only through a locked one) has its row as before.
C4_LockedTaskIsBoundary ==
    Propagated =>
       /\ \A i \in 2..Len(stack) : ~task[stack[i].taskId].isLocked
       /\ \A t \in DOMAIN task \ {last.root} :
             ~DownstreamUnlocked(edges, task, last.root, t) => task[t] = last.preTask[t]

\* C4 witness: a propagation has ended; a locked dependent of the root would
\* have been moved by it, and an unlocked task depends on that locked task
C4_Witness ==
    /\ Settled /\ Propagated
    /\ \E e1 \in edges, e2 \in edges :
          /\ e1.dependsOnId = last.root
          /\ task[e1.taskId].isLocked
          /\ newStartDate(dependentRow(task, edges, e1).task) > task[e1.taskId].startDate
          /\ e2.dependsOnId = e1.taskId
          /\ ~task[e2.taskId].isLocked
          /\ ~DownstreamUnlocked(edges, task, last.root, e2.taskId)
          /\ newStartDate(dependentRow(task, edges, e2).task) > task[e2.taskId].startDate

\* C5: every write of a propagation stores a start date that is not earlier
\* than the one stored just before the write.
C5_WritesNeverMoveEarlier ==
    [][Running => \A t \in DOMAIN task : task'[t].startDate >= task[t].startDate]_vars

\* C6: a propagation run again on the same root, with no edit in between,
\* changes no row (the second run is an updateTask that resupplies the dates
\* the root already has).
C6_SecondRunChangesNothing ==
    (Settled /\ last.op = "updateTask" /\ last.outcome = "ok" /\ Propagated
     /\ last.noEdit /\ last.prevRoot = {last.root})
       => task = last.preTask

\* C7: after autoScheduleDependentTasks(P), an unlocked T whose only edge is on
\* P (lag L >= 0) starts on max(previous start, proposed), proposed being
\* P.endDate + (L+1) working days for FINISH_TO_START and P.startDate + L
\* working days for START_TO_START; a T pushed by FINISH_TO_START with lag 0
\* starts on the first working day after P's end.
C7_SoleEdgeStart ==
    (Settled /\ Propagated) =>
       \A e \in SoleEdgesOn(last.root) :
          (~task[e.taskId].isLocked /\ e.lagDays >= 0
           /\ e.type \in {FINISH_TO_START, START_TO_START}) =>
             LET previous == last.preTask[e.taskId].startDate
                 P == task[last.root]
                 proposed == IF e.type = FINISH_TO_START
                             THEN addWorkingDays(P.endDate, e.lagDays + 1)
                             ELSE addWorkingDays(P.startDate, e.lagDays)
             IN /\ task[e.taskId].startDate = Max({previous, proposed})
                /\ (e.type = FINISH_TO_START /\ e.lagDays = 0
                    /\ task[e.taskId].startDate # previous)
                      => task[e.taskId].startDate = NextWorkingDayAfter(P.endDate)

\* C7 witness: P ends on a Friday and its only dependent, finish-to-start with
\* lag 0, was pushed to the Monday after
C7_Witness ==
    /\ Settled /\ Propagated
    /\ \E e \in SoleEdgesOn(last.root) :
          /\ ~task[e.taskId].isLocked
          /\ e.type = FINISH_TO_START /\ e.lagDays = 0
          /\ getDay(task[last.root].endDate) = 5
          /\ task[e.taskId].startDate = task[last.root].endDate + 3
          /\ task[e.taskId].startDate # last.preTask[e.taskId].startDate

\* C8: an unlocked T of duration > 1 whose only edge is a FINISH_TO_FINISH or
\* START_TO_FINISH edge on P, and which autoScheduleDependentTasks(P) has
\* pushed, ends exactly on the proposed end (P.endDate, respectively
\* P.startDate, advanced by lagDays working days).
C8_FinishEdgeEndsOnProposedEnd ==
    (Settled /\ Propagated) =>
       \A e \in SoleEdgesOn(last.root) :
          (~task[e.taskId].isLocked
           /\ e.type \in {FINISH_TO_FINISH, START_TO_FINISH}
           /\ task[e.taskId].duration > 1
           /\ task[e.taskId].startDate # last.preTask[e.taskId].startDate) =>
             task[e.taskId].endDate =
                addWorkingDays(IF e.type = FINISH_TO_FINISH
                               THEN task[last.root].endDate
                               ELSE task[last.root].startDate, e.lagDays)

----------------------------------------------------------------------------
(* Claims about the date arithmetic *)

\* C11: for every start s and duration d >= 1 (wd.days = d - 1), the end
\* computed as s advanced by d - 1 working days, moved back by d - 1 working
\* days with addWorkingDays(end, -(d - 1)), is s again.
C11_BackwardRecoversStart ==
    (wd.done /\ wd.days >= 0) =>
       addWorkingDays(wd.result, 0 - wd.days) = wd.startDate

\* the n-th working day strictly before d (d itself for n = 0)
RECURSIVE WorkingDaysBefore(_, _)
WorkingDaysBefore(d, n) ==
    IF n > 0
    THEN WorkingDaysBefore(d - 1, IF isWorkingDay(d - 1) THEN n - 1 ELSE n)
    ELSE d

\* C18: for a START_TO_START or FINISH_TO_START edge with lagDays L < 0 the
\* proposed start is a lead: the predecessor's startDate moved |L| working
\* days earlier, respectively its endDate moved by L + 1 working days (for
\* L = -3 the second working day before the end), and it differs from the
\* start proposed with lag 0.
C18_NegativeLagIsLeadTime ==
    (wd.done /\ wd.lagDays < 0 /\ wd.type \in {START_TO_START, FINISH_TO_START}) =>
       /\ wd.result =
             IF wd.type = START_TO_START
             THEN WorkingDaysBefore(wd.dependsOn.startDate, 0 - wd.lagDays)
             ELSE WorkingDaysBefore(wd.dependsOn.endDate, 0 - (wd.lagDays + 1))
       /\ wd.result # proposedStart(wd.type, 0, wd.dependsOn, wd.duration)

\* the number of working days in the closed range [startDate, endDate], and
\* at least 1
ClampedWorkingDays(startDate, endDate) ==
    LET days == Cardinality({d \in startDate..endDate : isWorkingDay(d)})
    IN IF days >= 1 THEN days ELSE 1

\* C19: every stored task has duration >= 1; a duration that createTask or
\* updateTask derives from the dates is the number of working days in
\* [start, end], or 1 when that number is 0 (end before start, weekend days
\* only); no step of a propagation changes a duration.
C19_DurationAtLeastOne ==
    /\ [](\A t \in DOMAIN task : task[t].duration >= 1)
    /\ [](\A data \in CreateInputs :
             data.duration = NoDuration =>
                createTaskFrom(data).duration =
                   ClampedWorkingDays(data.startDate, data.endDate))
    /\ [][\A t \in DOMAIN task, data \in DurationInputs :
            (updateTask(t, data) /\ data.startDate # NoDate /\ data.endDate # NoDate
             /\ data.duration = NoDuration) =>
               task'[t].duration = ClampedWorkingDays(data.startDate, data.endDate)]_vars
    /\ [][PropagationStep =>
            \A t \in DOMAIN task : task'[t].duration = task[t].duration]_vars

\* C19 witness: an edit has stored an end before the start on a task of three
\* working days, whose duration is now 1, and a propagation has then moved a
\* dependent of two working days
C19_Witness ==
    /\ Settled /\ Propagated
    /\ last.op = "updateTask"
    /\ task[last.taskId].endDate < task[last.taskId].startDate
    /\ task[last.taskId].duration = 1
    /\ last.preTask[last.taskId].duration = 3
    /\ \E t \in DOMAIN task :
          /\ task[t].duration = 2
          /\ task[t].startDate # last.preTask[t].startDate

----------------------------------------------------------------------------
(* Claims about what starts a propagation *)

\* C12: an updateTask that supplies a startDate or an endDate stores the
\* supplied dates on the edited task and writes no other row itself; if the
\* task is locked after the update no propagation is started (so no other
\* task's dates change in the call), and if it is unlocked
\* autoScheduleDependentTasks is started on the edited task's id.
C12_UpdatePropagatesIffUnlocked ==
    [][\A t \in DOMAIN task, data \in UpdateInputs :
          (updateTask(t, data) /\ (data.startDate # NoDate \/ data.endDate # NoDate)) =>
             /\ task'[t].startDate =
                   IF data.startDate # NoDate THEN data.startDate ELSE task[t].startDate
             /\ task'[t].endDate =
                   IF data.endDate # NoDate THEN data.endDate ELSE task[t].endDate
             /\ \A o \in DOMAIN task \ {t} : task'[o] = task[o]
             /\ stack' = IF task'[t].isLocked THEN <<>> ELSE <<callFrame(t)>>
             /\ last'.propagated = ~task'[t].isLocked
             /\ last'.propagated => last'.root = t]_vars

\* C12 witness: the dates of a locked task were edited, an unlocked dependent
\* of it would have been pushed by a propagation, and every other row is as
\* before the call
C12_Witness ==
    /\ Settled
    /\ last.op = "updateTask" /\ last.outcome = "ok"
    /\ task[last.taskId].isLocked
    /\ task[last.taskId].endDate # last.preTask[last.taskId].endDate
    /\ ~Propagated
    /\ \E e \in edges :
          /\ e.dependsOnId = last.taskId
          /\ ~task[e.taskId].isLocked
          /\ newStartDate(dependentRow(task, edges, e).task) > task[e.taskId].startDate
    /\ \A o \in DOMAIN task \ {last.taskId} : task[o] = last.preTask[o]

\* the last call was an accepted addDependency(T, P, ..) on an unlocked T
AddedToUnlocked ==
    /\ last.op = "addDependency" /\ last.outcome = "ok"
    /\ ~last.preTask[last.taskId].isLocked

\* C13: when an accepted addDependency(T, P, type, lag) with T unlocked has run
\* to its end, autoScheduleDependentTasks was run on P and T starts no earlier
\* than the start proposed by each stored edge of T on P (the new one among
\* them) from P's stored dates, and T ends on its start advanced by
\* duration - 1 working days.
C13_NewDependentRescheduled ==
    (Settled /\ AddedToUnlocked) =>
       LET T == task[last.taskId]
           P == task[last.dependsOnId]
       IN /\ Propagated /\ last.root = last.dependsOnId
          /\ \E e \in edges : e.taskId = last.taskId /\ e.dependsOnId = last.dependsOnId
          /\ \A e \in edges :
                (e.taskId = last.taskId /\ e.dependsOnId = last.dependsOnId) =>
                   T.startDate >= proposedStart(e.type, e.lagDays, P, T.duration)
          /\ T.endDate = addWorkingDays(T.startDate, T.duration - 1)

\* C13 witness: the new edge has pushed T (of two working days), which now
\* starts exactly on the start the edge proposes
C13_Witness ==
    /\ Settled /\ AddedToUnlocked
    /\ task[last.taskId].duration = 2
    /\ task[last.taskId].startDate > last.preTask[last.taskId].startDate
    /\ \E e \in edges \ last.preEdges :
          task[last.taskId].startDate =
             proposedStart(e.type, e.lagDays, task[last.dependsOnId], 2)

\* the two tasks named by the last call existed and were in different projects
CrossProjectCall ==
    /\ last.op = "addDependency"
    /\ last.taskId \in DOMAIN last.preTask /\ last.dependsOnId \in DOMAIN last.preTask
    /\ last.preTask[last.taskId].projectId # last.preTask[last.dependsOnId].projectId

\* C14: an addDependency between tasks of different projects is refused with
\* the project error whatever the cycle check would say, creates no row,
\* changes no task row and starts no propagation; every stored edge joins two
\* tasks of one project.
C14_EdgesStayInsideProject ==
    /\ \A e \in edges :
          /\ e.taskId \in DOMAIN task /\ e.dependsOnId \in DOMAIN task
          /\ task[e.taskId].projectId = task[e.dependsOnId].projectId
    /\ CrossProjectCall =>
          /\ last.outcome = "CrossProject"
          /\ addDependencyResponse(last.outcome) = 400
          /\ edges = last.preEdges
          /\ task = last.preTask
          /\ ~Running /\ ~Propagated
    /\ (last.op = "addDependency" /\ last.outcome = "CrossProject") => CrossProjectCall

\* C14 witness: a link from a task with stored links to a task of the other
\* project was refused, as the second call made
C14_Witness ==
    /\ CrossProjectCall
    /\ last.outcome = "CrossProject"
    /\ ops = MaxOps
    /\ \E e \in edges : e.taskId = last.taskId \/ e.dependsOnId = last.taskId

\* the start the stored rows call for: the latest of T's stored start and of
\* the starts proposed by all of T's stored edges from the stored dates of the
\* tasks they are on
LatestProposedStart(T) ==
    Max({task[T].startDate} \cup
        {proposedStart(e.type, e.lagDays, task[e.dependsOnId], task[T].duration)
         : e \in {x \in edges : x.taskId = T}})

\* C20: the start a propagation writes for an unlocked dependent T is the
\* maximum of T's current start and of the starts proposed by all of T's
\* edges, those on tasks other than the one being propagated included.
C20_WrittenStartIsLatestOfAllEdges ==
    [][rescheduleDependent =>
          LET T == Top.dependents[Top.i].task.id
          IN task'[T].startDate = LatestProposedStart(T)]_vars

----------------------------------------------------------------------------
(* Claims about store errors *)

\* prisma.task.update was rejected for a dependent during the last call
UpdateRejected == "failedOn" \in DOMAIN last /\ last.outcome # "retried"

\* C15: when the update of one dependent was rejected inside
\* autoScheduleDependentTasks, the service call that started the propagation
\* still succeeds, and the unlocked dependents that came after the failed one
\* in the same loop have been rescheduled: each starts no earlier than its
\* edges on the common predecessor propose.
C15_StoreErrorSparesSiblingsAndCall ==
    (Settled /\ UpdateRejected) =>
       /\ last.outcome = "ok"
       /\ \A sibling \in last.siblings, e \in edges :
             (e.taskId = sibling /\ e.dependsOnId = last.failedUnder) =>
                task[sibling].startDate >=
                   proposedStart(e.type, e.lagDays, task[last.failedUnder],
                                 task[sibling].duration)

\* the task table right after the edit of the last call, before its
\* propagation wrote anything (a propagation never writes its own root)
TaskAfterEdit == [last.preTask EXCEPT ![last.root] = task[last.root]]

\* a propagation ended as one error-free run from the store after the edit
\* of the call can end
EndsAsOneRun == task \in autoScheduleDependentTasks(TaskAfterEdit, edges, last.root)

\* C16: when a propagation was cut short by a rejected update and was then run
\* again on the same root to its end with no store error, the stored schedules
\* are those a single error-free run from the store after the edit can leave.
C16_RetryEndsAsOneRun ==
    (Settled /\ last.outcome = "retried") => EndsAsOneRun

----------------------------------------------------------------------------
(* Claims about termination *)

\* the numbers of edges of the dependency paths that start at root and go from
\* a task to a task that depends on it (0 for the empty path)
PathLengthsFrom(E, root) ==
    {0} \cup {n \in 1..NumTasks :
                \E p \in [1..(n + 1) -> Tasks] :
                   /\ p[1] = root
                   /\ \A i \in 1..n : \E e \in E : e.taskId = p[i + 1] /\ e.dependsOnId = p[i]}

LongestPathFrom(E, root) == Max(PathLengthsFrom(E, root))

\* the number of recursive calls pending below the call on the root
RecursionDepth == Len(stack) - 1

\* C17: on an acyclic graph the recursion depth of
\* autoScheduleDependentTasks(root) never exceeds the number of edges of the
\* longest dependency path that starts at root, and every run of it ends.
C17_TerminatesWithinLongestPath ==
    /\ []((Running /\ Acyclic(edges)) =>
             RecursionDepth <= LongestPathFrom(edges, stack[1].taskId))
    /\ (Running ~> ~Running)

\* C17 witness: the recursion is as deep as the longest path from the root,
\* which has two edges
C17_Witness ==
    /\ Running
    /\ Acyclic(edges)
    /\ RecursionDepth = 2
    /\ LongestPathFrom(edges, stack[1].taskId) = 2

----------------------------------------------------------------------------
(* Claims about what a propagation writes *)

\* C21: every write of a propagation stores, with the new start, the end
\* reached by advancing that start by duration - 1 working days: a task of
\* one working day ends on its start, and a task of three working days that
\* starts on a Thursday ends on the Monday after.
C21_WrittenEndFollowsStart ==
    [][rescheduleDependent =>
          LET T == Top.dependents[Top.i].task.id
          IN /\ task'[T].endDate =
                   addWorkingDays(task'[T].startDate, task[T].duration - 1)
             /\ task[T].duration = 1 => task'[T].endDate = task'[T].startDate
             /\ (task[T].duration = 3 /\ getDay(task'[T].startDate) = 4)
                   => /\ task'[T].endDate = task'[T].startDate + 4
                      /\ getDay(task'[T].endDate) = 1]_vars

\* C21 witness: a propagation has moved a task of three working days to a
\* Thursday, and it ends on the Monday after
C21_Witness ==
    /\ Settled /\ Propagated
    /\ \E t \in DOMAIN task :
          /\ task[t].duration = 3
          /\ task[t].startDate # last.preTask[t].startDate
          /\ getDay(task[t].startDate) = 4
          /\ task[t].endDate = task[t].startDate + 4

\* the row of T as the query would return it from the store as it is now
StoredRow(T) == dependentRow(task, edges, CHOOSE e \in edges : e.taskId = T).task

\* C22: whenever a propagation computes and writes the dates of a dependent T,
\* T's own start and the dates of the tasks T depends on that enter the
\* computation are the stored ones at that moment (nothing read before a write
\* that a nested call made to T or to one of those tasks is used). Rows that
\* the same loop has already written itself (a second link of T on the same
\* task) are left out.
C22_WritesUseStoredValues ==
    [][rescheduleDependent =>
          LET t == Top.dependents[Top.i].task
          IN (\A j \in 1..(Top.i - 1) : Top.dependents[j].task.id # t.id) =>
                /\ t.startDate = StoredRow(t.id).startDate
                /\ t.dependencies = StoredRow(t.id).dependencies]_vars

\* C23: for a fixed graph, fixed stored schedules and a fixed root, every
\* order in which the queries return their rows leads
\* autoScheduleDependentTasks(root) to the same stored schedules: the table a
\* finished propagation has left is the only one it could leave.
C23_EveryOrderSameSchedules ==
    (Settled /\ Propagated) =>
       autoScheduleDependentTasks(TaskAfterEdit, edges, last.root) = {task}

\* C24: a rejected update of a propagation undoes nothing: the dates the run
\* has written before stay as written, the row the service call itself edited
\* stays as edited, and no dependency row changes.
C24_NoRollback ==
    [][storeError =>
          /\ \A t \in DOMAIN task : t \in DOMAIN task' /\ task'[t] = task[t]
          /\ DOMAIN task' = DOMAIN task
          /\ edges' = edges]_vars

\* C24 witness: an updateTask has failed in its propagation; the edit of its
\* own row is stored, and so is the write of the task under which the
\* rejected update was made
C24_Witness ==
    /\ Settled
    /\ last.op = "updateTask" /\ last.outcome = "StoreError"
    /\ task[last.taskId] # last.preTask[last.taskId]
    /\ last.failedUnder # last.root
    /\ task[last.failedUnder].startDate > last.preTask[last.failedUnder].startDate
    /\ task[last.failedOn] = last.preTask[last.failedOn]

----------------------------------------------------------------------------
(* Claims about the cost of the cycle check *)

\* C25: on every finite edge set, cyclic ones and parallel edges included,
\* wouldCreateCircularDependency ends with an answer, and it queries the
\* dependencies of each task id at most once.
C25_CycleCheckEndsQueryingOnce ==
    /\ [](\A i, j \in 1..Len(bfs.queried) : i # j => bfs.queried[i] # bfs.queried[j])
    /\ <>BfsDone

\* C25 witness: the check has answered false on a graph that holds a cycle,
\* after querying the two tasks of the cycle once each
C25_Witness ==
    /\ bfs.result = "false"
    /\ ~Acyclic(edges)
    /\ Len(bfs.queried) = 2
    /\ \E e \in edges : e.taskId = bfs.queried[2] /\ e.dependsOnId = bfs.queried[1]
    /\ \E e \in edges : e.taskId = bfs.queried[1] /\ e.dependsOnId = bfs.queried[2]

----------------------------------------------------------------------------
(* Claims about the schedule a propagation leaves *)

\* C26: when autoScheduleDependentTasks(root) has returned on an acyclic graph
\* whose tasks are all unlocked, every task T that depends on root, directly or
\* through other tasks, starts no earlier than the start each of its edges
\* proposes from the final stored dates of the task depended on.
C26_EveryDownstreamEdgeSatisfied ==
    (/\ Settled /\ Propagated
     /\ Acyclic(edges)
     /\ \A t \in DOMAIN task : ~task[t].isLocked)
    => \A T \in DOMAIN task :
          DependsOnPath(edges, T, last.root) =>
             \A e \in {x \in edges : x.taskId = T} :
                task[T].startDate >=
                   proposedStart(e.type, e.lagDays, task[e.dependsOnId], task[T].duration)

----------------------------------------------------------------------------
(* Claims about concurrent calls *)

\* C27: when two addDependency calls interleave so that both run their cycle
\* check before either stores its row, the stored graph is still acyclic.
C27_ConcurrentAddsKeepGraphAcyclic ==
    (\A c \in CallIds : calls[c].op = "addDependency") => Acyclic(edges)

\* updateTask call c run alone, from its transaction to its return, on the
\* table T: the tables it can leave
updateTaskAlone(T, c) ==
    LET taskId == calls[c].taskId
        edited == [T EXCEPT ![taskId] = updatedRow(T[taskId], calls[c].data)]
    IN IF updateTriggersScheduling(calls[c].data, edited[taskId])
       THEN autoScheduleDependentTasks(edited, edges, taskId)
       ELSE {edited}

\* the tables call `first` followed by call `second` can leave
SerialOrder(first, second) ==
    UNION {updateTaskAlone(T, second) : T \in updateTaskAlone(calls[first].preTask, first)}

\* C28: when the propagation call trees of two concurrent updateTask calls on
\* different tasks interleave at their store reads and writes, the schedules
\* stored when both have returned are those of one of the two serial orders.
C28_ConcurrentUpdatesSerializable ==
    (\A c \in CallIds : calls[c].op = "updateTask" /\ Returned(c))
    => task \in SerialOrder(1, 2) \cup SerialOrder(2, 1)

----------------------------------------------------------------------------
(* Claims about what a call leaves alone *)

\* C29: on an acyclic graph, a step of autoScheduleDependentTasks(root) changes
\* nothing but the startDate and endDate of tasks that depend on root, directly
\* or through other tasks: the root's row, the row of every task that is not
\* downstream of root, every duration and isLocked flag (and project), the set
\* of tasks and every dependency edge are as before the step.
C29_PropagationWritesOnlyDownstreamDates ==
    [][(PropagationStep /\ Acyclic(edges)) =>
          /\ edges' = edges
          /\ DOMAIN task' = DOMAIN task
          /\ task'[last.root] = task[last.root]
          /\ \A t \in DOMAIN task :
                /\ task'[t].duration = task[t].duration
                /\ task'[t].isLocked = task[t].isLocked
                /\ task'[t].projectId = task[t].projectId
                /\ ~DependsOnPath(edges, t, last.root) => task'[t] = task[t]]_vars

\* C29 witness: a propagation has ended that moved a task downstream of the
\* root, while the root and a task that other tasks depend on but that does not
\* depend on the root are as the call left them
C29_Witness ==
    /\ Settled /\ Propagated
    /\ task[last.root] = TaskAfterEdit[last.root]
    /\ \E t \in DOMAIN task, u \in DOMAIN task :
          /\ DependsOnPath(edges, t, last.root)
          /\ task[t].startDate > last.preTask[t].startDate
          /\ task[t].duration = last.preTask[t].duration
          /\ u # last.root
          /\ ~DependsOnPath(edges, u, last.root)
          /\ \E e \in edges : e.dependsOnId = u
          /\ task[u] = last.preTask[u]

\* C30: addDependency(T, P) starts a propagation only when T is unlocked; when
\* T is locked and the checks pass, the new edge is stored, the call ends
\* without a propagation and no task's dates are changed by it, whatever other
\* unlocked tasks depend on P.
C30_LockedDependentStartsNoPropagation ==
    [][\A T \in Tasks, P \in Tasks, ty \in DependencyType, lag \in 0..MaxLag :
          addDependency(T, P, ty, lag) =>
             /\ stack' # <<>> => (T \in DOMAIN task /\ ~task[T].isLocked)
             /\ (/\ T \in DOMAIN task /\ task[T].isLocked
                 /\ addDependencyOutcome(task, edges, T, P) = "ok")
                => /\ Edge(T, P, ty, lag) \in edges'
                   /\ stack' = <<>>
                   /\ ~last'.propagated
                   /\ task' = task]_vars

\* C30 witness: an edge from a locked task to P has been added and the call is
\* over; another, unlocked task depends on P and a propagation from P would
\* have moved it, but every row is as before the call
C30_Witness ==
    /\ Settled
    /\ last.op = "addDependency" /\ last.outcome = "ok"
    /\ task[last.taskId].isLocked
    /\ \E e \in edges : e.taskId = last.taskId /\ e.dependsOnId = last.dependsOnId
    /\ \E e \in edges :
          /\ e.dependsOnId = last.dependsOnId
          /\ e.taskId # last.taskId
          /\ ~task[e.taskId].isLocked
          /\ newStartDate(dependentRow(task, edges, e).task) > task[e.taskId].startDate
    /\ task = last.preTask

====
